---- MODULE Spec2Model ----
(***************************************************************************)
(* Review session of the Postal Data Viewer (app.py): the session state    *)
(* dict built by build_index, the navigation callbacks goto_prev,          *)
(* goto_next and goto_key, show_current, save_annotation and export_csv.   *)
(***************************************************************************)
EXTENDS Integers, Sequences, FiniteSets, TLC

\* ---------------------------------------------------------------- bounds
\* Largest number of files in the reference folder of an uploaded archive.
MaxFiles == 3

\* Largest number of temporary directories made by loads.
MaxLoads == 2

\* Longest content of a text file, in bytes or byte groups.
MaxLen == 3

\* ------------------------------------------------------ values and inputs
\* Python's None.
None == "<None>"

\* The file names an archive's reference folder is drawn from: name = stem + ext.
\* "a.png" and "A.JPG" collide on the lowercased stem; "d.txt" is not an image.
RefFiles ==
    { [stem |-> "a", ext |-> ".png"], [stem |-> "A", ext |-> ".JPG"],
      [stem |-> "b", ext |-> ".png"], [stem |-> "c", ext |-> ".bmp"],
      [stem |-> "d", ext |-> ".txt"] }

\* Label values a caller may pass to save_annotation (None and "" are falsy).
Labels == {None, "", "Correct", "Wrong", "Maybe"}

\* Explanation texts a caller may pass to save_annotation.
Explanations == {"", "e1"}

\* Keys a caller may pass to goto_key (None and "" are falsy, "zz" matches nothing).
JumpKeys == {None, "", "a", "A", "b", "c", "zz"}

\* What a load request carries: no file, a path that is no file, an archive
\* without the required folders, or an archive holding them.
LoadKinds == {"none", "invalid", "noroot", "ok"}

\* ------------------------------------------------------------ str helpers
\* str.lower() on the strings that occur as stems and extensions.
lower(s) ==
    CASE s = "A" -> "a"
      [] s = ".JPG" -> ".jpg"
      [] OTHER -> s

\* Python's ordering of the lowercased stems (code point order).
StrRank(s) ==
    CASE s = "a" -> 1
      [] s = "b" -> 2
      [] s = "c" -> 3
      [] s = "d" -> 4

IMG_EXTS == {".jpg", ".jpeg", ".png", ".bmp", ".tif", ".tiff"}

\* os.path.splitext(os.path.basename(path))[0]
stem(path) == path.stem

\* All orders in which a directory walk may list the files of S.
WalkOrders(S) ==
    { o \in [1..Cardinality(S) -> S] : \A p, q \in 1..Cardinality(S) : o[p] = o[q] => p = q }

\* dict with one entry written: d[k] = v
DictPut(d, k, v) == [x \in DOMAIN d \cup {k} |-> IF x = k THEN v ELSE d[x]]

\* The empty dict.
EmptyDict == [x \in {} |-> None]

\* ------------------------------------------------------------ index build
RECURSIVE collect_walk(_, _)
collect_walk(walk, image_map) ==
    IF walk = <<>> THEN image_map
    ELSE LET name == Head(walk) IN
         collect_walk(Tail(walk),
                      IF lower(name.ext) \in IMG_EXTS
                        THEN DictPut(image_map, lower(stem(name)), name)
                        ELSE image_map)

\* collect_images: lowercased stem -> path, the file met last in the walk wins.
collect_images(walk) == collect_walk(walk, EmptyDict)

\* sorted(keys, reverse=True)
sorted_reverse(keys) ==
    CHOOSE s \in [1..Cardinality(keys) -> keys] :
        \A p, q \in 1..Cardinality(keys) : p < q => StrRank(s[p]) > StrRank(s[q])

\* sorted(keys) for a set of distinct lowercased stems.
sorted(keys) ==
    CHOOSE s \in [1..Cardinality(keys) -> keys] :
        \A p, q \in 1..Cardinality(keys) : p < q => StrRank(s[p]) < StrRank(s[q])

\* The state before any archive is loaded: gr.State({}).
NoState ==
    [loaded |-> FALSE, entries |-> <<>>, n |-> 0, i |-> 0, annotations |-> EmptyDict,
     tmpdir |-> 0]

\* build_index that shows the lowercased matching key instead of the file's stem.
build_index_lowkey(walk) ==
    LET image_map == collect_images(walk)
        keys == sorted(DOMAIN image_map)
        entries == [p \in 1..Len(keys) |->
                      [key |-> keys[p], image |-> image_map[keys[p]]]]
    IN [loaded |-> TRUE, entries |-> entries, n |-> Len(entries), i |-> 0,
        annotations |-> EmptyDict, tmpdir |-> 0]

\* The session dict of build_index; of an entry the key and the image path,
\* the two fields the callbacks of the session read. tmpdir 0: no such key yet.
build_index(walk) ==
    LET image_map == collect_images(walk)
        keys == sorted(DOMAIN image_map)
        entries == [p \in 1..Len(keys) |->
                      [key |-> stem(image_map[keys[p]]), image |-> image_map[keys[p]]]]
    IN [loaded |-> TRUE, entries |-> entries, n |-> Len(entries), i |-> 0,
        annotations |-> EmptyDict, tmpdir |-> 0]

\* ------------------------------------------------------- crop resolution
\* What a crop folder may hold as direct children (files of any extension and
\* a directory named "a") and as files of a sub-directory.
CropTop ==
    { [stem |-> "a", ext |-> ".JPG", isfile |-> TRUE],
      [stem |-> "A", ext |-> ".png", isfile |-> TRUE],
      [stem |-> "b", ext |-> ".txt", isfile |-> TRUE],
      [stem |-> "a", ext |-> "", isfile |-> FALSE] }

CropNested ==
    { [stem |-> "A", ext |-> ".bmp", isfile |-> TRUE],
      [stem |-> "c", ext |-> ".png", isfile |-> TRUE] }

\* A crop folder: its direct children in os.listdir order and the files of
\* its sub-directory in the order os.walk reaches them.
CropFolders ==
    { [top |-> t, nested |-> d] :
        t \in UNION { WalkOrders(S) : S \in { T \in SUBSET CropTop : Cardinality(T) <= MaxFiles } },
        d \in UNION { WalkOrders(S) : S \in SUBSET CropNested } }

\* The path of a file found in a crop folder, and None.
CropPath(f, nested) == [found |-> TRUE, stem |-> f.stem, ext |-> f.ext, nested |-> nested]

NoPath == [found |-> FALSE, stem |-> "", ext |-> "", nested |-> FALSE]

\* The first file of seq whose lowercased stem is base_low.
RECURSIVE first_match(_, _, _)
first_match(seq, base_low, nested) ==
    IF seq = <<>> THEN NoPath
    ELSE IF Head(seq).isfile /\ lower(Head(seq).stem) = base_low
           THEN CropPath(Head(seq), nested)
           ELSE first_match(Tail(seq), base_low, nested)

\* The first file of seq whose stem is base as written.
RECURSIVE first_match_exact(_, _, _)
first_match_exact(seq, base, nested) ==
    IF seq = <<>> THEN NoPath
    ELSE IF Head(seq).isfile /\ Head(seq).stem = base
           THEN CropPath(Head(seq), nested)
           ELSE first_match_exact(Tail(seq), base, nested)

\* find_by_stem_case_insensitive with `stem(name) == base`.
find_by_stem_exact(folder, base) ==
    LET direct == first_match_exact(folder.top, base, FALSE) IN
    IF direct.found THEN direct
    ELSE LET again == first_match_exact(folder.top, base, FALSE) IN
         IF again.found THEN again ELSE first_match_exact(folder.nested, base, TRUE)

\* The direct children first; then os.walk, which lists the files of the
\* folder itself before those of its sub-directory.
find_by_stem_case_insensitive(folder, base) ==
    LET base_low == lower(base)
        direct == first_match(folder.top, base_low, FALSE)
    IN IF direct.found THEN direct
       ELSE LET again == first_match(folder.top, base_low, FALSE) IN
            IF again.found THEN again ELSE first_match(folder.nested, base_low, TRUE)

\* ----------------------------------------------------------- text files
\* What a text file is made of: a letter, a space, a newline, the three
\* bytes of a UTF-8 byte-order mark, and a byte that is not valid UTF-8.
Tokens == {"x", " ", "\n", "BOM", "BAD"}

Contents == UNION { [1..k -> Tokens] : k \in 0..MaxLen }

\* The paths handed to the readers: None, a path that is no file, a file.
ReadArgs ==
    { [kind |-> "none", content |-> <<>>], [kind |-> "missing", content |-> <<>>] }
    \cup { [kind |-> "file", content |-> c] : c \in Contents }

\* The character a valid byte group decodes to.
utf8_char(t) == IF t = "BOM" THEN "U+FEFF" ELSE t

Invalid(content) == \E p \in 1..Len(content) : content[p] = "BAD"

\* A decoding that raised UnicodeDecodeError, and one that gave text.
DecodeError == [ok |-> FALSE, text |-> <<>>]

Decoded(text) == [ok |-> TRUE, text |-> text]

\* encoding="utf-8"
decode_utf8(content) ==
    IF Invalid(content) THEN DecodeError
    ELSE Decoded([p \in 1..Len(content) |-> utf8_char(content[p])])

\* encoding="utf-8-sig": a leading byte-order mark is skipped.
decode_utf8_sig(content) ==
    IF Invalid(content) THEN DecodeError
    ELSE IF content # <<>> /\ Head(content) = "BOM"
           THEN Decoded([p \in 1..Len(content) - 1 |-> utf8_char(content[p + 1])])
           ELSE Decoded([p \in 1..Len(content) |-> utf8_char(content[p])])

\* encoding="utf-8", errors="ignore": invalid bytes are left out.
decode_utf8_ignore(content) ==
    LET valid == SelectSeq(content, LAMBDA t : t # "BAD") IN
    Decoded([p \in 1..Len(valid) |-> utf8_char(valid[p])])

\* The readers without their last `except` branch.
read_decode_two_tiers(content) ==
    IF decode_utf8(content).ok
      THEN [raised |-> FALSE, tier |-> 1, text |-> decode_utf8(content).text]
    ELSE IF decode_utf8_sig(content).ok
      THEN [raised |-> FALSE, tier |-> 2, text |-> decode_utf8_sig(content).text]
    ELSE [raised |-> TRUE, tier |-> 2, text |-> <<>>]

\* The try/except cascade of both readers: which open() gave the text.
read_decode(content) ==
    IF decode_utf8(content).ok
      THEN [raised |-> FALSE, tier |-> 1, text |-> decode_utf8(content).text]
    ELSE IF decode_utf8_sig(content).ok
      THEN [raised |-> FALSE, tier |-> 2, text |-> decode_utf8_sig(content).text]
    ELSE IF decode_utf8_ignore(content).ok
      THEN [raised |-> FALSE, tier |-> 3, text |-> decode_utf8_ignore(content).text]
    ELSE [raised |-> TRUE, tier |-> 3, text |-> <<>>]

Whitespace == {" ", "\n"}

\* str.strip()
RECURSIVE lstrip(_)
lstrip(text) ==
    IF text # <<>> /\ Head(text) \in Whitespace THEN lstrip(Tail(text)) ELSE text

RECURSIVE rstrip(_)
rstrip(text) ==
    IF text # <<>> /\ text[Len(text)] \in Whitespace
      THEN rstrip(SubSeq(text, 1, Len(text) - 1)) ELSE text

strip(text) == rstrip(lstrip(text))

\* f.readline(): the text up to and with the first newline.
RECURSIVE readline(_)
readline(text) ==
    IF text = <<>> THEN <<>>
    ELSE IF Head(text) = "\n" THEN <<"\n">>
    ELSE <<Head(text)>> \o readline(Tail(text))

\* The sentinel "_".
Sentinel == <<"_">>

\* What a reader hands back, with the open() that gave it: 0 is the early return.
ReadResult(d, value) ==
    [raised |-> d.raised, tier |-> d.tier, text |-> d.text,
     value |-> IF d.raised THEN <<>> ELSE IF value # <<>> THEN value ELSE Sentinel]

EarlyReturn == [raised |-> FALSE, tier |-> 0, text |-> <<>>, value |-> Sentinel]

\* read_text_first_line without the strip().
read_text_first_line_raw(arg) ==
    IF arg.kind # "file" THEN EarlyReturn
    ELSE ReadResult(read_decode(arg.content), readline(read_decode(arg.content).text))

read_text_first_line(arg) ==
    IF arg.kind # "file" THEN EarlyReturn
    ELSE ReadResult(read_decode(arg.content), strip(readline(read_decode(arg.content).text)))

read_text_all(arg) ==
    IF arg.kind # "file" THEN EarlyReturn
    ELSE ReadResult(read_decode(arg.content), strip(read_decode(arg.content).text))

\* ------------------------------------------------------- archive locator
FOLDER_IMAGES == "falses_normalized_rotated"
FOLDER_POSTCODE_IMG == "postcode_img_preprocessed"
FOLDER_RECEIVER_IMG == "receiver_img_preprocessed"
FOLDER_READ_POSTCODE == "read_postcode"
FOLDER_READ_WORDS == "read_words"
FOLDER_REGION == "address_region_pred"

REQUIRED_DIRS ==
    { FOLDER_IMAGES, FOLDER_POSTCODE_IMG, FOLDER_RECEIVER_IMG,
      FOLDER_READ_POSTCODE, FOLDER_READ_WORDS, FOLDER_REGION }

\* What a directory of the extracted tree may hold under the required names:
\* all six as directories, five directories and a file, five directories, nothing.
DirContents ==
    { [dirs |-> REQUIRED_DIRS, files |-> {}],
      [dirs |-> REQUIRED_DIRS \ {FOLDER_REGION}, files |-> {FOLDER_REGION}],
      [dirs |-> REQUIRED_DIRS \ {FOLDER_READ_WORDS}, files |-> {}],
      [dirs |-> {}, files |-> {}] }

\* The extracted tree: directory 0 is extracted_dir, 1 and 3 are in it, 2 is in 1.
TreeDirs == 0..3

\* os.walk(extracted_dir) is top-down; the order of 1 and 3 is the file system's.
TreeWalks == { <<0, 1, 2, 3>>, <<0, 3, 1, 2>> }

LocateArgs == { [tree |-> t, walk |-> w] : t \in [TreeDirs -> DirContents], w \in TreeWalks }

\* all(os.path.exists(os.path.join(root, d)) for d in REQUIRED_DIRS)
has_required_exists(dir) == \A d \in REQUIRED_DIRS : d \in dir.dirs \cup dir.files

\* all(os.path.isdir(os.path.join(root, d)) for d in REQUIRED_DIRS)
has_required(dir) == \A d \in REQUIRED_DIRS : d \in dir.dirs

\* The directory found, and None.
FoundDir(d) == [found |-> TRUE, dir |-> d]

NotFound == [found |-> FALSE, dir |-> 0]

RECURSIVE first_root(_, _)
first_root(tree, walk) ==
    IF walk = <<>> THEN NotFound
    ELSE IF has_required(tree[Head(walk)]) THEN FoundDir(Head(walk))
    ELSE first_root(tree, Tail(walk))

find_zip_root_with_required_dirs(arg) ==
    IF has_required(arg.tree[0]) THEN FoundDir(0) ELSE first_root(arg.tree, arg.walk)

\* seq[i] for a Python list: 0-based, a negative index counts from the end.
PyIndex(seq, i) == seq[(IF i < 0 THEN i + Len(seq) ELSE i) + 1]

\* `not state or state.get("n", 0) == 0`
NoData(st) == ~st.loaded \/ st.n = 0

\* ---------------------------------------------------------------- returns
\* What a callback hands back besides the state: the header, the label and
\* explanation controls, the status text and the exported file.
NoRet ==
    [header |-> [text |-> "", key |-> "", pos |-> 0, n |-> 0],
     label |-> None, explanation |-> "", visible |-> FALSE, interactive |-> FALSE,
     status |-> [text |-> "", key |-> "", n |-> 0],
     file |-> [written |-> FALSE, rows |-> <<>>]]

\* A header or status that is a fixed text.
Text(t) == [text |-> t, key |-> "", n |-> 0]

\* The header of a record: f"{key}  ({i+1}/{n})"
Header(key, pos, n) == [text |-> "item", key |-> key, pos |-> pos, n |-> n]

\* The header of a callback that has no record to show.
TextHeader(t) == [text |-> t, key |-> "", pos |-> 0, n |-> 0]

\* ----------------------------------------------------------- show_current
show_current_state(st) == st

\* show_current that leaves the annotation controls blank.
show_current_blank(st) ==
    IF NoData(st)
      THEN [NoRet EXCEPT !.header = TextHeader("No data.")]
      ELSE [NoRet EXCEPT !.header = Header(PyIndex(st.entries, st.i).key, st.i + 1, st.n),
                         !.interactive = TRUE]

show_current(st) ==
    IF NoData(st)
      THEN [NoRet EXCEPT !.header = TextHeader("No data.")]
      ELSE LET key == PyIndex(st.entries, st.i).key
               has == key \in DOMAIN st.annotations
               label == IF has THEN st.annotations[key].label ELSE None
               explanation == IF has THEN st.annotations[key].explanation ELSE ""
           IN [NoRet EXCEPT !.header = Header(key, st.i + 1, st.n),
                            !.label = label,
                            !.explanation = explanation,
                            !.visible = (label = "Wrong"),
                            !.interactive = TRUE]

\* ------------------------------------------------------------- navigation
\* goto_prev without the modulus.
goto_prev_nomod(st) ==
    IF NoData(st) THEN st ELSE [st EXCEPT !.i = st.i - 1]

\* goto_prev that stops at the first record instead of wrapping.
goto_prev_clamped(st) ==
    IF NoData(st) THEN st ELSE [st EXCEPT !.i = IF st.i = 0 THEN 0 ELSE st.i - 1]

goto_prev(st) ==
    IF NoData(st) THEN st ELSE [st EXCEPT !.i = (st.i - 1) % st.n]

\* goto_next that also starts the annotations afresh.
goto_next_clearing(st) ==
    IF NoData(st) THEN st
    ELSE [st EXCEPT !.i = (st.i + 1) % st.n, !.annotations = EmptyDict]

goto_next(st) ==
    IF NoData(st) THEN st ELSE [st EXCEPT !.i = (st.i + 1) % st.n]

\* Matching that ignores letter case.
KeyHits_nocase(st, key) == { p \in 1..Len(st.entries) : lower(st.entries[p].key) = lower(key) }

\* Positions of the entries whose display key equals key.
KeyHits(st, key) == { p \in 1..Len(st.entries) : st.entries[p].key = key }

\* Smallest member of a non-empty set of positions: the first hit of the loop.
FirstOf(S) == CHOOSE p \in S : \A q \in S : p <= q

goto_key(st, key) ==
    IF NoData(st) THEN st
    ELSE IF key \in {None, ""} THEN st
    ELSE IF KeyHits(st, key) = {} THEN st
    ELSE [st EXCEPT !.i = FirstOf(KeyHits(st, key)) - 1]

\* The navigation callbacks without the "No data." text.
nav_return_silent(before, after) ==
    IF NoData(before) THEN NoRet ELSE show_current(after)

\* What the three navigation callbacks return.
nav_return(before, after) ==
    IF NoData(before) THEN [NoRet EXCEPT !.header = TextHeader("No data.")] ELSE show_current(after)

\* -------------------------------------------------------- save_annotation
\* The guard without the label test.
save_rejected_nolabel(st, label) == NoData(st)

save_rejected(st, label) == NoData(st) \/ label \in {None, ""}

\* save_annotation that keeps the explanation whatever the label.
save_annotation_keep(st, label, explanation) ==
    IF save_rejected(st, label) THEN st
    ELSE [st EXCEPT !.annotations =
             DictPut(st.annotations, PyIndex(st.entries, st.i).key,
                     [label |-> label, explanation |-> explanation])]

\* save_annotation that rebuilds the map with the one new entry.
save_annotation_fresh(st, label, explanation) ==
    IF save_rejected(st, label) THEN st
    ELSE [st EXCEPT !.annotations =
             DictPut(EmptyDict, PyIndex(st.entries, st.i).key,
                     [label |-> label,
                      explanation |-> IF label = "Wrong" THEN explanation ELSE ""])]

\* save_annotation that moves on to the next record once it has saved.
save_annotation_advance(st, label, explanation) ==
    IF save_rejected(st, label) THEN st
    ELSE [st EXCEPT !.annotations =
             DictPut(st.annotations, PyIndex(st.entries, st.i).key,
                     [label |-> label,
                      explanation |-> IF label = "Wrong" THEN explanation ELSE ""]),
                    !.i = (st.i + 1) % st.n]

\* save_annotation that files the annotation under the lowercased key.
save_annotation_lowkey(st, label, explanation) ==
    IF save_rejected(st, label) THEN st
    ELSE [st EXCEPT !.annotations =
             DictPut(st.annotations, lower(PyIndex(st.entries, st.i).key),
                     [label |-> label,
                      explanation |-> IF label = "Wrong" THEN explanation ELSE ""])]

save_annotation(st, label, explanation) ==
    IF save_rejected(st, label) THEN st
    ELSE LET key == PyIndex(st.entries, st.i).key IN
         [st EXCEPT !.annotations =
             DictPut(st.annotations, key,
                     [label |-> label,
                      explanation |-> IF label = "Wrong" THEN explanation ELSE ""])]

save_status(st, label) ==
    IF save_rejected(st, label)
      THEN Text("Cannot save: No data or no label selected.")
      ELSE [text |-> "Annotation saved.", key |-> PyIndex(st.entries, st.i).key, n |-> 0]

\* ------------------------------------------------------------- export_csv
\* `not state or not state.get("annotations")`
export_skipped(st) == ~st.loaded \/ DOMAIN st.annotations = {}

CsvHeader == <<"image_key", "label", "explanation">>

\* export_csv that walks the annotated keys first, then the others.
export_csv_map_order(st) ==
    IF export_skipped(st) THEN [written |-> FALSE, rows |-> <<>>]
    ELSE LET row(p) == LET key == st.entries[p].key IN
                       IF key \in DOMAIN st.annotations
                         THEN <<key, st.annotations[key].label, st.annotations[key].explanation>>
                         ELSE <<key, "Not Annotated", "">>
             done == SelectSeq([p \in 1..Len(st.entries) |-> p],
                               LAMBDA p : st.entries[p].key \in DOMAIN st.annotations)
             rest == SelectSeq([p \in 1..Len(st.entries) |-> p],
                               LAMBDA p : st.entries[p].key \notin DOMAIN st.annotations)
         IN [written |-> TRUE,
             rows |-> <<CsvHeader>> \o [q \in 1..Len(st.entries) |-> row((done \o rest)[q])]]

\* No file is handed back: gr.update(value=None).
NoFile == [written |-> FALSE, rows |-> <<>>]

\* The file with the rows handed to the csv writer, header first.
CsvFile(rows) == [written |-> TRUE, rows |-> rows]

\* The exported file; no file when there is no annotation.
export_csv(st) ==
    IF export_skipped(st) THEN NoFile
    ELSE CsvFile(<<CsvHeader>> \o
         [p \in 1..Len(st.entries) |->
            LET key == st.entries[p].key IN
            IF key \in DOMAIN st.annotations
              THEN <<key, st.annotations[key].label, st.annotations[key].explanation>>
              ELSE <<key, "Not Annotated", "">>])

\* -------------------------------------------------------------- the state
VARIABLES
    state,      \* the session dict held in gr.State
    ret,        \* what the last callback returned besides the state
    call,       \* the last callback and its arguments
    prevCall,   \* the navigation step before the last callback, with the cursor it started from
    lastSaved,  \* per key, the arguments of the last accepted save of this session
    tmpdirs,    \* the temporary directories on disk, by name
    fn          \* a helper called on its own: its name, its argument and, once done, what it returned

vars == <<state, ret, call, prevCall, lastSaved, tmpdirs, fn>>

\* No helper has been called.
NoFn == [op |-> "none", done |-> FALSE]

NoCall == [op |-> "init", label |-> None, explanation |-> "", key |-> None]

NoPrevCall == [op |-> "other", i |-> 0, cur |-> 0]

Init ==
    /\ state = NoState
    /\ ret = NoRet
    /\ call = NoCall
    /\ prevCall = NoPrevCall
    /\ lastSaved = EmptyDict
    /\ tmpdirs = {}
    /\ fn = NoFn

\* prevCall.cur is the cursor before the last callback; op and i describe
\* the callback before that one when it was a next or prev of this session.
Shift ==
    prevCall' = [op |-> IF call.op \in {"next", "prev"} /\ ~NoData(state) THEN call.op ELSE "other",
                 i |-> IF call.op \in {"next", "prev"} /\ ~NoData(state) THEN prevCall.cur ELSE 0,
                 cur |-> state.i]

\* The directory walks of the reference folders an archive may hold.
Walks ==
    UNION { WalkOrders(files) : files \in { S \in SUBSET RefFiles : Cardinality(S) <= MaxFiles } }

\* The sessions build_index makes of them.
Built == { build_index(walk) : walk \in Walks }

\* tempfile.mkdtemp(prefix="dataset_"): a directory that was not there.
mkdtemp == Cardinality(tmpdirs) + 1

\* load_zip_and_prepare on a request that yields no session: no file, a path
\* that is no file, or an archive without the required folders, which is
\* extracted before the folders are looked for.
LoadFail ==
    \E kind \in LoadKinds \ {"ok"} :
        /\ IF kind = "noroot"
             THEN /\ Cardinality(tmpdirs) < MaxLoads
                  /\ tmpdirs' = tmpdirs \cup {mkdtemp}
             ELSE UNCHANGED tmpdirs
        /\ state' = NoState
        /\ ret' = [NoRet EXCEPT !.header = TextHeader(kind), !.status = Text(kind)]
        /\ call' = [NoCall EXCEPT !.op = "load", !.key = kind]
        /\ lastSaved' = EmptyDict
        /\ prevCall' = NoPrevCall
        /\ UNCHANGED fn

\* load_zip_and_prepare on an archive that holds the required folders.
Load ==
    \E st \in Built :
        /\ Cardinality(tmpdirs) < MaxLoads
        /\ tmpdirs' = tmpdirs \cup {mkdtemp}
        /\ state' = [st EXCEPT !.tmpdir = mkdtemp]
        /\ ret' = IF st.n = 0
                    THEN [NoRet EXCEPT !.header = TextHeader("No images found in falses_normalized_rotated."),
                                       !.status = Text("No images found.")]
                    ELSE [show_current(st) EXCEPT !.status = [text |-> "Loaded items.", key |-> "", n |-> st.n]]
        /\ call' = [NoCall EXCEPT !.op = "load", !.key = "ok"]
        /\ lastSaved' = EmptyDict
        /\ prevCall' = NoPrevCall
        /\ UNCHANGED fn

Prev ==
    /\ state' = goto_prev(state)
    /\ ret' = nav_return(state, state')
    /\ call' = [NoCall EXCEPT !.op = "prev"]
    /\ Shift
    /\ UNCHANGED <<lastSaved, tmpdirs, fn>>

GoNext ==
    /\ state' = goto_next(state)
    /\ ret' = nav_return(state, state')
    /\ call' = [NoCall EXCEPT !.op = "next"]
    /\ Shift
    /\ UNCHANGED <<lastSaved, tmpdirs, fn>>

Jump ==
    \E key \in JumpKeys :
        /\ state' = goto_key(state, key)
        /\ ret' = nav_return(state, state')
        /\ call' = [NoCall EXCEPT !.op = "jump", !.key = key]
        /\ Shift
        /\ UNCHANGED <<lastSaved, tmpdirs, fn>>

Current ==
    /\ state' = show_current_state(state)
    /\ ret' = show_current(state)
    /\ call' = [NoCall EXCEPT !.op = "current"]
    /\ Shift
    /\ UNCHANGED <<lastSaved, tmpdirs, fn>>

Save ==
    \E label \in Labels :
    \E explanation \in Explanations :
        /\ state' = save_annotation(state, label, explanation)
        /\ ret' = [NoRet EXCEPT !.status = save_status(state, label)]
        /\ call' = [NoCall EXCEPT !.op = "save", !.label = label, !.explanation = explanation]
        /\ Shift
        /\ lastSaved' = IF save_rejected(state, label) THEN lastSaved
                        ELSE DictPut(lastSaved, PyIndex(state.entries, state.i).key,
                                     [label |-> label, explanation |-> explanation])
        /\ UNCHANGED <<tmpdirs, fn>>

Export ==
    /\ state' = state
    /\ ret' = [NoRet EXCEPT !.file = export_csv(state)]
    /\ call' = [NoCall EXCEPT !.op = "export"]
    /\ Shift
    /\ UNCHANGED <<lastSaved, tmpdirs, fn>>

Next == LoadFail \/ Load \/ Prev \/ GoNext \/ Jump \/ Current \/ Save \/ Export

Spec == Init /\ [][Next]_vars

\* ------------------------------------------------- the helpers on their own
session == <<state, ret, call, prevCall, lastSaved, tmpdirs>>

\* A helper about to be called with an argument, and the call returned.
Called(op, arg) == [op |-> op, arg |-> arg, done |-> FALSE]

Returned(out) == [op |-> fn.op, arg |-> fn.arg, done |-> TRUE, out |-> out]

Pending(op) == fn.op = op /\ ~fn.done

\* The crops build_index looks up: the key of a record against a crop folder.
CropCalls ==
    { [folder |-> folder, base |-> key] :
        folder \in CropFolders,
        key \in UNION { { st.entries[p].key : p \in 1..Len(st.entries) } : st \in Built } }

\* The helper calls to examine.
InitFn ==
    /\ state = NoState
    /\ ret = NoRet
    /\ call = NoCall
    /\ prevCall = NoPrevCall
    /\ lastSaved = EmptyDict
    /\ tmpdirs = {}
    /\ \/ \E walk \in Walks : fn = Called("build", walk)
       \/ \E c \in CropCalls : fn = Called("crop", c)
       \/ \E a \in ReadArgs : fn = Called("readline", a)
       \/ \E a \in ReadArgs : fn = Called("readall", a)
       \/ \E a \in LocateArgs : fn = Called("locate", a)

\* build_index on the walk of a reference folder.
FnBuild ==
    /\ Pending("build")
    /\ fn' = Returned(build_index(fn.arg))
    /\ UNCHANGED session

\* build_index resolving a crop of one of its records in a crop folder.
FnCrop ==
    /\ Pending("crop")
    /\ fn' = Returned(find_by_stem_case_insensitive(fn.arg.folder, fn.arg.base))
    /\ UNCHANGED session

FnReadLine ==
    /\ Pending("readline")
    /\ fn' = Returned(read_text_first_line(fn.arg))
    /\ UNCHANGED session

FnReadAll ==
    /\ Pending("readall")
    /\ fn' = Returned(read_text_all(fn.arg))
    /\ UNCHANGED session

FnLocate ==
    /\ Pending("locate")
    /\ fn' = Returned(find_zip_root_with_required_dirs(fn.arg))
    /\ UNCHANGED session

NextFn == FnBuild \/ FnCrop \/ FnReadLine \/ FnReadAll \/ FnLocate

SpecFn == InitFn /\ [][NextFn]_vars

\* ------------------------------------------------------------ properties
Active(st) == st.loaded /\ Len(st.entries) >= 1

NavOps == {"next", "prev", "jump"}

\* The display key of the record at the cursor.
CursorKey(st) == st.entries[st.i + 1].key

\* C1: in every session with at least one record the cursor is a valid
\* position, 0 <= cursor < n, initially and after any sequence of calls.
C1_CursorInRange ==
    Active(state) => 0 <= state.i /\ state.i < Len(state.entries)

\* prev() from the first of three records has wrapped to the last one.
C1_Witness ==
    /\ Active(state) /\ Len(state.entries) = 3
    /\ call.op = "prev" /\ prevCall.cur = 0 /\ state.i = 2

\* C2: next() followed by prev(), and prev() followed by next(), leave the
\* cursor where it was, wrap-around positions included.
C2_NextPrevIdentity ==
    /\ Active(state) /\ call.op = "prev" /\ prevCall.op = "next" => state.i = prevCall.i
    /\ Active(state) /\ call.op = "next" /\ prevCall.op = "prev" => state.i = prevCall.i

\* prev() then next() from the first of three records: out over the wrap
\* to the last record and back.
C2_Witness ==
    /\ Active(state) /\ Len(state.entries) = 3
    /\ call.op = "next" /\ prevCall.op = "prev"
    /\ prevCall.i = 0 /\ prevCall.cur = 2 /\ state.i = 0

\* An accepted save: the session is active and the label is neither None nor empty.
Accepted == call.op = "save" /\ Active(state) /\ call.label \notin {None, ""}

\* C3: an accepted annotate stores for the record at the cursor the
\* explanation as passed when the label is Wrong and the empty explanation
\* for any other label.
C3_ExplanationStored ==
    Accepted =>
        /\ CursorKey(state) \in DOMAIN state.annotations
        /\ state.annotations[CursorKey(state)].explanation =
              IF call.label = "Wrong" THEN call.explanation ELSE ""

\* Correct was saved with a non-empty explanation, which is dropped.
C3_Witness ==
    /\ Accepted /\ call.label = "Correct" /\ call.explanation = "e1"
    /\ state.annotations[CursorKey(state)].explanation = ""

\* The data rows of an exported file; no file has no rows.
DataRows(file) == IF file.written THEN Tail(file.rows) ELSE <<>>

\* C4: export writes exactly len(records) data rows whatever the annotation
\* coverage, and every record without an annotation gets "Not Annotated"
\* and an empty explanation.
C4_ExportRowPerRecord ==
    call.op = "export" /\ state.loaded =>
        /\ Len(DataRows(ret.file)) = Len(state.entries)
        /\ \A p \in 1..Len(state.entries) :
              state.entries[p].key \notin DOMAIN state.annotations =>
                  DataRows(ret.file)[p] = <<state.entries[p].key, "Not Annotated", "">>

\* C5: the data rows export writes are in record order, and the row of an
\* annotated record carries the label and explanation stored for its key.
C5_ExportOrder ==
    call.op = "export" /\ ret.file.written =>
        /\ Len(DataRows(ret.file)) = Len(state.entries)
        /\ \A p \in 1..Len(state.entries) :
              LET key == state.entries[p].key
                  row == DataRows(ret.file)[p]
              IN /\ row[1] = key
                 /\ key \in DOMAIN state.annotations =>
                       /\ row[2] = state.annotations[key].label
                       /\ row[3] = state.annotations[key].explanation

\* Three records, the last one annotated and the first one not.
C5_Witness ==
    /\ call.op = "export" /\ ret.file.written /\ Len(state.entries) = 3
    /\ state.entries[1].key \notin DOMAIN state.annotations
    /\ state.entries[3].key \in DOMAIN state.annotations
    /\ DataRows(ret.file)[3] = <<state.entries[3].key, "Wrong", "e1">>

\* C6: annotate on a session without records, without a session, or with an
\* absent or empty label reports the failure and changes nothing.
C6_RejectedSaveIsNoOp ==
    [][ call'.op = "save"
        /\ (~state.loaded \/ Len(state.entries) = 0 \/ call'.label \in {None, ""})
        => /\ state' = state
           /\ ret'.status.text = "Cannot save: No data or no label selected." ]_vars

\* A save with an empty label was refused in a session that holds annotations.
C6_Witness ==
    /\ call.op = "save" /\ call.label = "" /\ Len(state.entries) = 3
    /\ DOMAIN state.annotations # {}
    /\ ret.status.text = "Cannot save: No data or no label selected."

\* C7: next, prev and jumpTo leave the annotation map and the records as
\* they were; within a session only annotate changes the annotation map.
C7_NavigationFrame ==
    [][ /\ call'.op \in NavOps =>
              /\ state'.annotations = state.annotations
              /\ state'.entries = state.entries
        /\ state'.annotations # state.annotations => call'.op \in {"save", "load"} ]_vars

\* A jump moved the cursor in a session that holds annotations.
C7_Witness ==
    /\ call.op = "jump" /\ state.i = 2 /\ prevCall.cur = 0
    /\ DOMAIN state.annotations # {}

\* C8: within one session a key that has an annotation keeps one.
C8_AnnotatedKeysGrow ==
    [][ call'.op # "load" => DOMAIN state.annotations \subseteq DOMAIN state'.annotations ]_vars

\* A save for one record in a session where another record is annotated too.
C8_Witness ==
    /\ Accepted /\ Len(state.entries) = 3
    /\ Cardinality(DOMAIN state.annotations) >= 2

\* C9: jumpTo(key) puts the cursor on the record whose display key is
\* exactly key; when no record has that display key the cursor stays.
C9_JumpExactKey ==
    [][ call'.op = "jump" /\ Active(state) =>
          LET hits == { p \in 1..Len(state.entries) : state.entries[p].key = call'.key }
          IN IF hits # {}
               THEN state'.i + 1 \in hits /\ Cardinality(hits) = 1
               ELSE state'.i = state.i ]_vars

\* A jump to "A" in a session whose first record is "a": the cursor stays.
C9_Witness ==
    /\ call.op = "jump" /\ call.key = "A" /\ Active(state)
    /\ state.entries[1].key = "a" /\ state.i = 2 /\ prevCall.cur = 2

\* What current() is to report for the record at the cursor.
Expected(st, saved) ==
    IF CursorKey(st) \in DOMAIN saved
      THEN LET a == saved[CursorKey(st)] IN
           [label |-> a.label, explanation |-> IF a.label = "Wrong" THEN a.explanation ELSE ""]
      ELSE [label |-> None, explanation |-> ""]

\* C10: current() changes nothing, and whenever navigation brings the cursor
\* to a record the view reports the label and explanation last saved for it,
\* no label and an empty explanation if it was never annotated.
C10_CurrentProjection ==
    [][ /\ call'.op = "current" => state' = state
        /\ call'.op \in NavOps \cup {"current"} /\ Active(state') =>
              /\ ret'.label = Expected(state', lastSaved').label
              /\ ret'.explanation = Expected(state', lastSaved').explanation ]_vars

\* Navigation moved the cursor onto a record saved earlier as Wrong with "e1".
C10_Witness ==
    /\ call.op \in NavOps /\ Active(state) /\ prevCall.cur # state.i
    /\ ret.label = "Wrong" /\ ret.explanation = "e1"


\* C11: a session with zero records stays as it is: next, prev, jumpTo and
\* current hand back the "no data" indicator and neither they nor annotate
\* change the state, so it never becomes active.
C11_EmptyStaysEmpty ==
    [][ state.loaded /\ Len(state.entries) = 0
        /\ call'.op \in NavOps \cup {"current", "save"}
        => /\ state' = state
           /\ call'.op \in NavOps \cup {"current"} =>
                 /\ ret'.header = TextHeader("No data.")
                 /\ ~ret'.interactive ]_vars

\* A jump with a key on a loaded session that has no record.
C11_Witness ==
    /\ state.loaded /\ Len(state.entries) = 0 /\ state.n = 0
    /\ call.op = "jump" /\ call.key = "a"
    /\ ret.header = TextHeader("No data.")

\* The records are in strictly ascending order of their lowercased keys.
Ascending(entries) ==
    \A p, q \in 1..Len(entries) :
        p < q => StrRank(lower(entries[p].key)) < StrRank(lower(entries[q].key))

\* C12: the records of a built session are strictly ascending by lowercased
\* key, and no session operation changes their order.
C12_RecordsSorted ==
    [][ /\ Ascending(state'.entries)
        /\ call'.op # "load" => state'.entries = state.entries ]_vars

\* Three records led by the upper-case key "A", after a save on the last one.
C12_Witness ==
    /\ Len(state.entries) = 3 /\ state.entries[1].key = "A"
    /\ state.entries[2].key = "b" /\ state.entries[3].key = "c"
    /\ Accepted /\ state.i = 2

\* C19: an accepted annotate writes the entry of the display key at the
\* cursor and nothing else: cursor, records and every other annotation stay,
\* and the entry is the new annotation alone.
C19_SaveFrame ==
    [][ call'.op = "save" /\ Active(state) /\ call'.label \notin {None, ""} =>
          LET key == CursorKey(state) IN
          /\ state'.i = state.i
          /\ state'.n = state.n
          /\ state'.entries = state.entries
          /\ DOMAIN state'.annotations = DOMAIN state.annotations \cup {key}
          /\ \A k \in DOMAIN state.annotations \ {key} :
                state'.annotations[k] = state.annotations[k]
          /\ state'.annotations[key] =
                [label |-> call'.label,
                 explanation |-> IF call'.label = "Wrong" THEN call'.explanation ELSE ""] ]_vars

\* Correct saved on the middle record while the other two hold Wrong/"e1".
C19_Witness ==
    /\ Accepted /\ Len(state.entries) = 3 /\ state.i = 1
    /\ call.label = "Correct"
    /\ DOMAIN state.annotations = { state.entries[p].key : p \in 1..3 }
    /\ state.annotations[state.entries[1].key] = [label |-> "Wrong", explanation |-> "e1"]
    /\ state.annotations[state.entries[3].key] = [label |-> "Wrong", explanation |-> "e1"]
    /\ state.annotations[state.entries[2].key] = [label |-> "Correct", explanation |-> ""]

\* C20: every stored annotation has the label Correct or Wrong, whatever
\* label was passed to annotate.
C20_LabelsCorrectOrWrong ==
    \A k \in DOMAIN state.annotations :
        state.annotations[k].label \in {"Correct", "Wrong"}

\* The elements of a sequence.
Range(seq) == { seq[p] : p \in 1..Len(seq) }

\* C13: every lowercased stem shared by reference image files gives exactly
\* one record, whose display key and image path are those of one of these
\* files; no two records have keys that are equal ignoring case.
C13_OneRecordPerStem ==
    fn.op = "build" /\ fn.done =>
        LET images == { f \in Range(fn.arg) : lower(f.ext) \in IMG_EXTS }
            entries == fn.out.entries
        IN /\ \A f \in images :
                 \E p \in 1..Len(entries) :
                    /\ lower(entries[p].key) = lower(f.stem)
                    /\ entries[p].image \in images
                    /\ entries[p].key = entries[p].image.stem
                    /\ \A q \in 1..Len(entries) :
                          lower(entries[q].key) = lower(f.stem) => q = p
           /\ \A p, q \in 1..Len(entries) :
                 lower(entries[p].key) = lower(entries[q].key) => p = q
           /\ fn.out.n = Cardinality({ lower(f.stem) : f \in images })

\* a.png then A.JPG in one walk: the one record is that of A.JPG.
C13_Witness ==
    /\ fn.op = "build" /\ fn.done
    /\ fn.arg = << [stem |-> "a", ext |-> ".png"], [stem |-> "A", ext |-> ".JPG"] >>
    /\ fn.out.n = 1
    /\ fn.out.entries[1] = [key |-> "A", image |-> [stem |-> "A", ext |-> ".JPG"]]

ReadDone == fn.op \in {"readline", "readall"} /\ fn.done

\* The text a reader is to hand back when it is not the sentinel.
Trimmed == IF fn.op = "readline" THEN strip(readline(fn.out.text)) ELSE strip(fn.out.text)

\* C15: readLine and readAll return "_" for no path, a missing file, an
\* empty file and a whitespace-only file, and otherwise the trimmed first
\* line and the trimmed content.
C15_SentinelOrTrimmed ==
    ReadDone =>
        fn.out.value = IF fn.arg.kind # "file" \/ strip(fn.out.text) = <<>>
                         THEN Sentinel ELSE Trimmed

\* C15 as amended: readLine and readAll return "_" for no path, a missing
\* file, an empty file and a whitespace-only file; readLine also returns "_"
\* when the first line is empty or whitespace-only although later lines are
\* not; otherwise they return the trimmed first line and the trimmed content.
C15_SentinelOrTrimmedLine ==
    ReadDone =>
        /\ fn.arg.kind # "file" \/ strip(fn.out.text) = <<>> => fn.out.value = Sentinel
        /\ fn.out.value = IF fn.arg.kind # "file" \/ Trimmed = <<>> THEN Sentinel ELSE Trimmed

\* readLine on a file whose first line is blank and whose second line is "x".
C15_Witness ==
    /\ ReadDone /\ fn.op = "readline" /\ fn.arg.kind = "file"
    /\ fn.arg.content = <<" ", "\n", "x">>
    /\ fn.out.value = Sentinel

\* The open() that gives the text: the first in the order strict UTF-8,
\* BOM-tolerant UTF-8, UTF-8 with invalid bytes handled, that does not fail.
TiersInOrder ==
    /\ fn.out.tier = 1 <=> decode_utf8(fn.arg.content).ok
    /\ fn.out.tier = 2 <=> ~decode_utf8(fn.arg.content).ok /\ decode_utf8_sig(fn.arg.content).ok
    /\ fn.out.tier = 3 <=> ~decode_utf8(fn.arg.content).ok /\ ~decode_utf8_sig(fn.arg.content).ok

\* C16: the readers never raise: the strategies are tried in the order
\* strict UTF-8, BOM-tolerant UTF-8, UTF-8 with invalid bytes replaced, and
\* the last one always gives a string.
C16_NeverRaisesReplacing ==
    ReadDone /\ fn.arg.kind = "file" =>
        /\ ~fn.out.raised
        /\ TiersInOrder
        /\ fn.out.tier = 3 =>
              fn.out.text = [p \in 1..Len(fn.arg.content) |->
                               IF fn.arg.content[p] = "BAD" THEN "U+FFFD"
                               ELSE utf8_char(fn.arg.content[p])]

\* C16 as amended: the readers never raise: the strategies are tried in the
\* order strict UTF-8, BOM-tolerant UTF-8, UTF-8 with invalid bytes left out
\* (not replaced), and the last one always gives a string.
C16_NeverRaisesDropping ==
    ReadDone /\ fn.arg.kind = "file" =>
        /\ ~fn.out.raised
        /\ TiersInOrder
        /\ fn.out.tier = 3 =>
              /\ \A p \in 1..Len(fn.out.text) : fn.out.text[p] \notin {"BAD", "U+FFFD"}
              /\ Len(fn.out.text) =
                    Cardinality({ p \in 1..Len(fn.arg.content) : fn.arg.content[p] # "BAD" })
              /\ \A p \in 1..Len(fn.arg.content) :
                    fn.arg.content[p] # "BAD" =>
                        fn.out.text[Cardinality({ q \in 1..p : fn.arg.content[q] # "BAD" })]
                            = utf8_char(fn.arg.content[p])

\* readAll on "x", an invalid byte, "x": the third open() gives "xx".
C16_Witness ==
    /\ ReadDone /\ fn.op = "readall"
    /\ fn.arg.content = <<"x", "BAD", "x">>
    /\ ~fn.out.raised /\ fn.out.tier = 3 /\ fn.out.value = <<"x", "x">>

\* C17: locate returns extracted_root when it holds all six required
\* folders; otherwise a directory of the subtree that does; it finds none
\* exactly when no directory of the subtree holds all six. What it returns
\* holds the six as directories.
C17_Locate ==
    fn.op = "locate" /\ fn.done =>
        LET holds(d) == \A r \in REQUIRED_DIRS : r \in fn.arg.tree[d].dirs IN
        /\ holds(0) => fn.out = FoundDir(0)
        /\ fn.out.found => fn.out.dir \in TreeDirs /\ holds(fn.out.dir)
        /\ ~fn.out.found <=> \A d \in TreeDirs : ~holds(d)

\* The root holds nothing, directory 1 has one of the six as a file, and
\* directory 2, below it, holds all six.
C17_Witness ==
    /\ fn.op = "locate" /\ fn.done
    /\ fn.arg.tree[0].dirs = {}
    /\ fn.arg.tree[1].files = {FOLDER_REGION}
    /\ fn.arg.tree[2].dirs = REQUIRED_DIRS
    /\ fn.arg.tree[3].dirs = {}
    /\ fn.out = FoundDir(2)

\* C18: the extracted temporary storage of a session is deleted when the
\* session ends, also when a load replaces it, and an exported file is
\* written while that storage is still there.
C18_StorageReleased ==
    [][ /\ state.loaded /\ call'.op = "load" => state.tmpdir \notin tmpdirs'
        /\ call'.op = "export" /\ ret'.file.written => state.tmpdir \in tmpdirs ]_vars

\* C21: every key of the annotation map is the display key of exactly one
\* record of the session, every stored annotation has a non-empty label, and
\* the stored record count n is the length of the record sequence.
C21_AnnotationsWellFormed ==
    /\ \A k \in DOMAIN state.annotations :
          /\ Cardinality({ p \in 1..Len(state.entries) : state.entries[p].key = k }) = 1
          /\ state.annotations[k].label \notin {None, ""}
    /\ state.n = Len(state.entries)

\* Three records led by "A", all annotated, the first one just saved.
C21_Witness ==
    /\ Accepted /\ state.n = 3 /\ state.i = 0
    /\ state.entries[1].key = "A"
    /\ DOMAIN state.annotations = {"A", "b", "c"}

====
